---------------------------- MODULE Spec2Model ----------------------------
(***************************************************************************)
(* A model of the commit-impact analysis engine of ai-git-summarize:       *)
(*   - linear_backoff and with_retry        (src/ai_git/retry_utils.py)    *)
(*   - AISummarizer._make_api_call, _strip_backticks and                   *)
(*     analyze_commit_impact                (src/ai_git/ai_summarizer.py)  *)
(*                                                                         *)
(* Text is a sequence of one-character strings.  The character " " stands  *)
(* for every whitespace character other than the line feed, "a" for the    *)
(* characters of the class [a-zA-Z0-9_.-], and "!" for every other         *)
(* character that is neither whitespace nor a backtick.                    *)
(***************************************************************************)
EXTENDS Integers, Sequences, FiniteSets, TLC

\* ------------------------------------------------------------------------
\* Bounds of the model
\* ------------------------------------------------------------------------

\* longest input text given to the sanitizer
MaxTextLen == 7

\* a wrapped text: up to MaxTicks backticks, a body of up to MaxBodyLen
\* characters, up to MaxTicks backticks
MaxTicks == 3
MaxBodyLen == 4

\* longest message body the model answers a summary or feedback request with
MaxMessageLen == 5

\* largest max_retries, wait (seconds) and attempt number given to
\* linear_backoff
MaxRetries == 5
MaxWait == 10
MaxAttempt == 5

\* largest max_retries and wait (seconds) given to linear_backoff where it
\* is computed in floating point
MaxFloatRetries == 48
MaxFloatWait == 3

\* largest max_retries of a run of the wrapper of with_retry
MaxRunRetries == 3

\* number of calls the remote client is scripted for
ScriptLen == 3

\* ------------------------------------------------------------------------
\* Text primitives (Python str methods as the source uses them)
\* ------------------------------------------------------------------------

\* the backtick character (U+0060)
BT == "BT"
NL == "\n"

\* the None of Python, kept apart from every text (no text holds this element)
None == <<"None">>

Alphabet == {BT, "a", "!", " ", NL}

\* the characters for which str.isspace() holds
Whitespace == {" ", NL}

IsSpace(c) == c \in Whitespace

\* the class [a-zA-Z0-9_.-] of the language identifier
LangChars == {"a"}

\* number of leading elements of s, from the i-th on, that are in chars
RECURSIVE LeadRun(_, _, _)
LeadRun(s, chars, i) ==
    IF i <= Len(s) /\ s[i] \in chars THEN LeadRun(s, chars, i + 1) ELSE i - 1

\* number of leading elements of s, from the i-th on, that are not in stops
RECURSIVE LeadUntil(_, _, _)
LeadUntil(s, stops, i) ==
    IF i <= Len(s) /\ s[i] \notin stops THEN LeadUntil(s, stops, i + 1)
    ELSE i - 1

\* number of trailing elements of s, after the last n, that are in chars
RECURSIVE TrailRun(_, _, _)
TrailRun(s, chars, n) ==
    IF n < Len(s) /\ s[Len(s) - n] \in chars THEN TrailRun(s, chars, n + 1)
    ELSE n

\* str.strip(chars): s without its leading and trailing elements in chars
StripBy(s, chars) ==
    LET l == LeadRun(s, chars, 1)
    IN  IF l = Len(s) THEN << >>
        ELSE SubSeq(s, l + 1, Len(s) - TrailRun(s, chars, 0))

\* str.strip()
Strip(s) == StripBy(s, Whitespace)

\* str.strip(BT)
StripBackticks(s) == StripBy(s, {BT})

\* str.split('\n'): the lines of s, at least one
RECURSIVE SplitLines(_)
SplitLines(s) ==
    LET nl == LeadUntil(s, {NL}, 1)
    IN  IF nl = Len(s) THEN << s >>
        ELSE << SubSeq(s, 1, nl) >> \o SplitLines(SubSeq(s, nl + 2, Len(s)))

\* '\n'.join(lines)
RECURSIVE JoinLines(_)
JoinLines(lines) ==
    IF lines = << >> THEN << >>
    ELSE IF Len(lines) = 1 THEN lines[1]
    ELSE lines[1] \o << NL >> \o JoinLines(Tail(lines))


\* ------------------------------------------------------------------------
\* Response Sanitizer: AISummarizer._strip_backticks
\* ------------------------------------------------------------------------

\* re.match(r"^BT BT BT(?:[a-zA-Z0-9_.-]*)?\s*\n?(.*?)\n?BT BT BT$", t, DOTALL)
\* succeeds (t is already trimmed, so $ is the end of t): the opening and
\* the closing fence are disjoint runs of three backticks
TripleMatches(t) ==
    /\ Len(t) >= 6
    /\ \A i \in 1..3 : t[i] = BT
    /\ \A i \in (Len(t) - 2)..Len(t) : t[i] = BT

\* group(1) of that match.  The greedy tag takes the longest run of
\* identifier characters, the greedy \s* the longest run of whitespace after
\* it (so the first \n? finds nothing); the lazy group then ends before the
\* closing fence, or before a line feed right in front of it, which the
\* second \n? takes.
TripleGroup(t) ==
    LET n     == Len(t)
        tag   == LeadRun(SubSeq(t, 4, n), LangChars, 1)
        ws    == LeadRun(SubSeq(t, 4 + tag, n), Whitespace, 1)
        first == 4 + tag + ws
        last  == IF t[n - 3] = NL /\ first <= n - 3 THEN n - 4 ELSE n - 3
    IN  SubSeq(t, first, last)

\* re.match(r"^BT+(.*?)BT+$", t, DOTALL) succeeds
GeneralMatches(t) == Len(t) >= 2 /\ t[1] = BT /\ t[Len(t)] = BT

\* group(1) of that match: what lies between the leading and the trailing
\* run of backticks (empty when t is nothing but backticks)
GeneralGroup(t) ==
    LET lead == LeadRun(t, {BT}, 1)
    IN  IF lead = Len(t) THEN << >>
        ELSE SubSeq(t, lead + 1, Len(t) - TrailRun(t, {BT}, 0))

\* lines 91-101: the surrounding backticks removed from the trimmed text t
RemoveSurrounding(t) ==
    IF TripleMatches(t) THEN Strip(TripleGroup(t))
    ELSE IF GeneralMatches(t) THEN Strip(GeneralGroup(t))
    ELSE t

\* line 107: the filter of the list comprehension
HasContent(line) == Strip(StripBackticks(Strip(line))) # << >>

\* lines 104-108
cleaned_lines(t) == SelectSeq(SplitLines(t), HasContent)

\* strip_backticks without the .strip() of its last line
strip_backticks_untrimmed(txt) ==
    IF txt = None THEN None
    ELSE LET t == Strip(txt)
         IN  IF t = << >> THEN None
             ELSE JoinLines(cleaned_lines(RemoveSurrounding(t)))

\* strip_backticks without the test of line 88 for an empty trimmed text
strip_backticks_blank_unchecked(txt) ==
    IF txt = None THEN None
    ELSE Strip(JoinLines(cleaned_lines(RemoveSurrounding(Strip(txt)))))

strip_backticks(txt) ==
    IF txt = None THEN None
    ELSE LET t == Strip(txt)
         IN  IF t = << >> THEN None
             ELSE Strip(JoinLines(cleaned_lines(RemoveSurrounding(t))))


\* ------------------------------------------------------------------------
\* Backoff Policy: RetryConfig and linear_backoff
\* ------------------------------------------------------------------------

\* the dataclass RetryConfig (its defaults are DefaultRetryConfig)
RetryConfig(max_retries, min_wait, max_wait) ==
    [max_retries |-> max_retries, min_wait |-> min_wait,
     max_wait |-> max_wait, retryable_status_codes |-> {429, 503, 504}]

DefaultRetryConfig == RetryConfig(5, 2, 10)

RECURSIVE Gcd(_, _)
Gcd(a, b) == IF b = 0 THEN a ELSE Gcd(b, a % b)

Abs(x) == IF x < 0 THEN -x ELSE x

\* the number num/den (den > 0) in lowest terms: the value of a Python
\* float expression, computed exactly
Rat(num, den) ==
    LET g == Gcd(Abs(num), den)
    IN  [num |-> num \div g, den |-> den \div g]

\* linear_backoff counting the attempts from one
linear_backoff_one_indexed(a, c) ==
    IF c.max_retries <= 1 THEN Rat(c.min_wait, 1)
    ELSE LET den  == c.max_retries - 1
             num  == c.min_wait * den + (a + 1) * (c.max_wait - c.min_wait)
         IN  IF num <= c.max_wait * den THEN Rat(num, den)
             ELSE Rat(c.max_wait, 1)

\* linear_backoff returning the wrong end of the interval when there is at
\* most one retry
linear_backoff_max_when_single(a, c) ==
    IF c.max_retries <= 1 THEN Rat(c.max_wait, 1)
    ELSE LET den  == c.max_retries - 1
             num  == c.min_wait * den + a * (c.max_wait - c.min_wait)
         IN  IF num <= c.max_wait * den THEN Rat(num, den)
             ELSE Rat(c.max_wait, 1)

\* linear_backoff(attempt, config), a number of seconds
linear_backoff(a, c) ==
    IF c.max_retries <= 1 THEN Rat(c.min_wait, 1)
    ELSE LET den  == c.max_retries - 1
             \* wait_time = min_wait + attempt * step, over den
             num  == c.min_wait * den + a * (c.max_wait - c.min_wait)
         IN  IF num <= c.max_wait * den THEN Rat(num, den)
             ELSE Rat(c.max_wait, 1)

\* ------------------------------------------------------------------------
\* linear_backoff in the arithmetic of Python: the operands are int, the
\* division of line 24 gives a float (an IEEE-754 double), and so do the
\* product and the sum of line 25.  Every operation rounds its exact
\* result to MantissaBits significant bits, ties to even.
\*
\* A positive double is [bits, exp]: MantissaBits bits, the first of them
\* 1, standing for the number 0.b1 b2 ... times 2^exp.  Zero has no bits.
\* ------------------------------------------------------------------------

\* the significand of a double
MantissaBits == 53

\* fraction bits computed by a division before rounding: enough for
\* MantissaBits significant bits and a guard bit after the leading zeros
\* of a quotient of two small integers
DivisionBits == 64

\* the long arithmetic below works on this many bits at a time
ChunkBits == 16

FZero == [bits |-> << >>, exp |-> 0]

Zeros(n) == [i \in 1..n |-> 0]

RECURSIVE Pow2(_)
Pow2(n) == IF n = 0 THEN 1 ELSE 2 * Pow2(n - 1)

\* the binary digits of k >= 0, most significant first (none for 0)
RECURSIVE IntBits(_)
IntBits(k) == IF k = 0 THEN << >> ELSE IntBits(k \div 2) \o << k % 2 >>

\* the n-digit binary form of v < 2^n
BitsOf(v, n) == [i \in 1..n |-> (v \div Pow2(n - i)) % 2]

\* the number whose binary digits are b[from..to]
RECURSIVE ValueOf(_, _, _)
ValueOf(b, from, to) ==
    IF from > to THEN 0 ELSE 2 * ValueOf(b, from, to - 1) + b[to]

\* the digits of k * b[1..hi] + carry
RECURSIVE MulFrom(_, _, _, _)
MulFrom(b, k, hi, carry) ==
    IF hi = 0 THEN IntBits(carry)
    ELSE LET lo == IF hi > ChunkBits THEN hi - ChunkBits + 1 ELSE 1
             n  == hi - lo + 1
             t  == k * ValueOf(b, lo, hi) + carry
         IN  MulFrom(b, k, lo - 1, t \div Pow2(n)) \o BitsOf(t % Pow2(n), n)

\* the digits of a[1..hi] + b[1..hi] + carry
RECURSIVE AddFrom(_, _, _, _)
AddFrom(a, b, hi, carry) ==
    IF hi = 0 THEN IntBits(carry)
    ELSE LET lo == IF hi > ChunkBits THEN hi - ChunkBits + 1 ELSE 1
             n  == hi - lo + 1
             t  == ValueOf(a, lo, hi) + ValueOf(b, lo, hi) + carry
         IN  AddFrom(a, b, lo - 1, t \div Pow2(n)) \o BitsOf(t % Pow2(n), n)

\* b plus one unit in its last place
Increment(b) == AddFrom(b, Zeros(Len(b) - 1) \o <<1>>, Len(b), 0)

\* the double nearest to 0.b times 2^e, ties to even; b starts with 1
RoundBits(b, e) ==
    IF Len(b) <= MantissaBits
    THEN [bits |-> b \o Zeros(MantissaBits - Len(b)), exp |-> e]
    ELSE LET keep   == SubSeq(b, 1, MantissaBits)
             guard  == b[MantissaBits + 1]
             sticky == \E i \in (MantissaBits + 2)..Len(b) : b[i] = 1
             up     == guard = 1 /\ (sticky \/ keep[MantissaBits] = 1)
         IN  IF ~up THEN [bits |-> keep, exp |-> e]
             ELSE IF \A i \in 1..MantissaBits : keep[i] = 1
             THEN [bits |-> <<1>> \o Zeros(MantissaBits - 1), exp |-> e + 1]
             ELSE [bits |-> Increment(keep), exp |-> e]

\* the double nearest to 0.b times 2^e, for any sequence of bits b
Normalize(b, e) ==
    IF \A i \in 1..Len(b) : b[i] = 0 THEN FZero
    ELSE LET lead == LeadRun(b, {0}, 1)
         IN  RoundBits(SubSeq(b, lead + 1, Len(b)), e - lead)

\* float(k) for an int k >= 0
FromInt(k) == Normalize(IntBits(k), Len(IntBits(k)))

\* the first count bits of r/d (0 <= r < d) after the binary point, and one
\* more bit that tells whether anything is left
RECURSIVE FracBits(_, _, _)
FracBits(r, d, count) ==
    IF count = 0 THEN << IF r = 0 THEN 0 ELSE 1 >>
    ELSE LET n == IF count > ChunkBits THEN ChunkBits ELSE count
             scaled == r * Pow2(n)
         IN  BitsOf(scaled \div d, n) \o FracBits(scaled % d, d, count - n)

\* n / d for ints n >= 0 and d > 0
FloatDiv(n, d) ==
    LET whole == IntBits(n \div d)
    IN  Normalize(whole \o FracBits(n % d, d, DivisionBits), Len(whole))

\* k * x for an int k >= 0 and a double x >= 0
FloatMulInt(k, x) ==
    IF k = 0 \/ x = FZero THEN FZero
    ELSE LET product == MulFrom(x.bits, k, MantissaBits, 0)
         IN  Normalize(product, x.exp + Len(product) - MantissaBits)

\* k + x for an int k >= 0 and a double x >= 0 below 2^MantissaBits
FloatAddInt(k, x) ==
    IF x = FZero THEN FromInt(k)
    ELSE LET kb    == IntBits(k)
             whole == IF x.exp > Len(kb) THEN x.exp ELSE Len(kb)
             frac  == MantissaBits - x.exp
             xs    == Zeros(whole - (IF x.exp > 0 THEN x.exp ELSE 0))
                          \o Zeros(IF x.exp < 0 THEN 0 - x.exp ELSE 0)
                          \o x.bits
             ks    == Zeros(whole - Len(kb)) \o kb \o Zeros(frac)
             total == AddFrom(xs, ks, whole + frac, 0)
         IN  Normalize(total, Len(total) - frac)

\* x < y for doubles x, y >= 0
FloatLess(x, y) ==
    IF y = FZero THEN FALSE
    ELSE IF x = FZero THEN TRUE
    ELSE \/ x.exp < y.exp
         \/ /\ x.exp = y.exp
            /\ \E i \in 1..MantissaBits :
                   /\ x.bits[i] < y.bits[i]
                   /\ \A j \in 1..(i - 1) : x.bits[j] = y.bits[j]

\* linear_backoff(attempt, config) as Python computes it, for a config with
\* 0 <= min_wait <= max_wait
linear_backoff_float(a, c) ==
    IF c.max_retries <= 1 THEN FromInt(c.min_wait)
    ELSE LET step == FloatDiv(c.max_wait - c.min_wait, c.max_retries - 1)
             wait == FloatAddInt(c.min_wait, FloatMulInt(a, step))
         IN  \* min(wait_time, max_wait) is max_wait only if it is less
             IF FloatLess(FromInt(c.max_wait), wait) THEN FromInt(c.max_wait)
             ELSE wait


\* ------------------------------------------------------------------------
\* State
\* ------------------------------------------------------------------------

VARIABLES
    \* --- _strip_backticks applied to a text, and to its own result
    text,                 \* the argument (a text or None)
    out1,                 \* _strip_backticks(text)
    out2,                 \* _strip_backticks(out1)
    san_step,             \* how many times it has been applied
    \* --- linear_backoff and the wrapper of with_retry
    config,               \* the RetryConfig
    attempt,              \* the argument of linear_backoff; the loop variable
    wait_time,            \* the value linear_backoff returned
    retryable_exceptions, \* the tuple of exception classes given to with_retry
    w_pc,                 \* where the wrapper is: "call", "sleep", "done"
    func_calls,           \* invocations of the wrapped function
    sleeps,               \* the durations passed to time.sleep, in order
    raised,               \* the exceptions the wrapped function raised, in order
    last_exception,       \* the local variable of wrapper
    w_outcome,            \* how wrapper ended: returned a value or raised
    \* --- analyze_commit_impact
    side_effect,          \* what client.chat.completions.create does, call by call
    create_count,         \* invocations of client.chat.completions.create
    sent,                 \* the message sets passed to it, in order
    commit_ref,           \* the argument commit_ref
    pc,                   \* INITIAL, AWAITING_CONTEXT, FOLLOW_UP or DONE
    initial_response,     \* the local variable initial_response
    requested_file,       \* the local variable requested_file
    fetches,              \* the calls of get_file_content_at_commit, in order,
                          \* each with what the git command did
    file_content,         \* the local variable file_content
    final_response,       \* the local variable final_response
    result,               \* the value the method returned, or what it raised
    \* --- summarize_changes and the command layer
    strategy,             \* the argument strategy of summarize_changes
    report,               \* what the command printed for the result
    diff_text,            \* the local variable diff_text of the command
    options,              \* the options the command was started with
    git_ops,              \* the git operations the command ran, in order
    messageApproved       \* the local variable messageApproved of git_summary

sanVars   == <<text, out1, out2, san_step>>
retryVars == <<config, attempt, wait_time, retryable_exceptions, w_pc,
               func_calls, sleeps, raised, last_exception, w_outcome>>
protoVars == <<side_effect, create_count, sent, commit_ref, pc,
               initial_response, requested_file, fetches, file_content,
               final_response, result, strategy, report, diff_text, options,
               git_ops, messageApproved>>
vars      == <<sanVars, retryVars, protoVars>>

\* a text not yet computed
Pending == <<"Pending">>

\* a number of seconds not yet computed (no number has the denominator 0)
NoWait == [num |-> 0, den |-> 0]

\* a call that has not ended yet
Running == [kind |-> "running"]

\* no strategy given, nothing printed yet
NoStrategy == "-"
NoReport == [kind |-> "none"]

\* the state of the command layer where no command is modelled
cmdVars == <<diff_text, options, git_ops, messageApproved>>
\* the value of messageApproved before the approval step
NotAsked == [answer |-> "not asked", value |-> "unset"]
NoOptions == [command |-> "none"]

\* the parts of the state a specification does not use
SanIdle ==
    text = None /\ out1 = Pending /\ out2 = Pending /\ san_step = 0

RetryIdle ==
    /\ config = DefaultRetryConfig /\ attempt = 0 /\ wait_time = NoWait
    /\ retryable_exceptions = {} /\ w_pc = "idle" /\ func_calls = 0
    /\ sleeps = << >> /\ raised = << >> /\ last_exception = None
    /\ w_outcome = Running

ProtoIdle ==
    /\ side_effect = << >> /\ create_count = 0 /\ sent = << >>
    /\ commit_ref = "HEAD" /\ pc = "idle" /\ initial_response = Pending
    /\ requested_file = None /\ fetches = << >> /\ file_content = Pending
    /\ final_response = Pending /\ result = Running
    /\ strategy = NoStrategy /\ report = NoReport
    /\ diff_text = Pending /\ options = NoOptions /\ git_ops = << >>
    /\ messageApproved = NotAsked

\* ------------------------------------------------------------------------
\* Specification of the sanitizer: every text up to MaxTextLen characters
\* ------------------------------------------------------------------------

Texts == UNION {[1..n -> Alphabet] : n \in 0..MaxTextLen}

InitSanitizer ==
    /\ text \in Texts \cup {None}
    /\ out1 = Pending /\ out2 = Pending /\ san_step = 0
    /\ RetryIdle /\ ProtoIdle

\* summary = self._strip_backticks(summary)
Sanitize ==
    /\ san_step = 0
    /\ out1' = strip_backticks(text)
    /\ san_step' = 1
    /\ UNCHANGED <<text, out2, retryVars, protoVars>>

\* the sanitizer applied to its own result
SanitizeAgain ==
    /\ san_step = 1
    /\ out2' = strip_backticks(out1)
    /\ san_step' = 2
    /\ UNCHANGED <<text, out1, retryVars, protoVars>>

NextSanitizer == Sanitize \/ SanitizeAgain

SpecSanitizer == InitSanitizer /\ [][NextSanitizer]_vars

\* ------------------------------------------------------------------------
\* Specification of the sanitizer on wrapped texts: a body between two runs
\* of backticks (three on each side make a fenced block; a body that begins
\* with identifier characters carries a language tag)
\* ------------------------------------------------------------------------

Ticks(k) == [i \in 1..k |-> BT]

Bodies == UNION {[1..n -> Alphabet] : n \in 0..MaxBodyLen}

WrappedTexts ==
    {Ticks(k) \o body \o Ticks(m) :
         k \in 1..MaxTicks, m \in 1..MaxTicks, body \in Bodies}

InitWrapped ==
    /\ text \in WrappedTexts
    /\ out1 = Pending /\ out2 = Pending /\ san_step = 0
    /\ RetryIdle /\ ProtoIdle

SpecWrapped == InitWrapped /\ [][NextSanitizer]_vars

\* ------------------------------------------------------------------------
\* Specification of the backoff policy: every configuration and attempt
\* within the bounds
\* ------------------------------------------------------------------------

InitBackoff ==
    /\ \E r \in (-1)..MaxRetries, lo \in 0..MaxWait, hi \in 0..MaxWait :
           config = RetryConfig(r, lo, hi)
    /\ attempt \in 0..MaxAttempt
    /\ wait_time = NoWait
    /\ retryable_exceptions = {} /\ w_pc = "idle" /\ func_calls = 0
    /\ sleeps = << >> /\ raised = << >> /\ last_exception = None
    /\ w_outcome = Running
    /\ SanIdle /\ ProtoIdle

\* wait_time = linear_backoff(attempt, config)
Backoff ==
    /\ w_pc = "idle" /\ wait_time = NoWait
    /\ wait_time' = linear_backoff(attempt, config)
    /\ UNCHANGED <<config, attempt, retryable_exceptions, w_pc, func_calls,
                   sleeps, raised, last_exception, w_outcome, sanVars,
                   protoVars>>

NextBackoff == Backoff

SpecBackoff == InitBackoff /\ [][NextBackoff]_vars

\* ------------------------------------------------------------------------
\* Specification of the backoff policy in floating point: for every
\* well-formed configuration within the bounds, the waits of the attempts
\* 0, 1, ..., max_retries, one after the other
\* ------------------------------------------------------------------------

InitFloatBackoff ==
    /\ \E r \in 0..MaxFloatRetries, lo \in 0..MaxFloatWait,
          hi \in 0..MaxFloatWait :
           lo <= hi /\ config = RetryConfig(r, lo, hi)
    /\ attempt = 0 /\ wait_time = NoWait
    /\ retryable_exceptions = {} /\ w_pc = "idle" /\ func_calls = 0
    /\ sleeps = << >> /\ raised = << >> /\ last_exception = None
    /\ w_outcome = Running
    /\ SanIdle /\ ProtoIdle

\* wait_time = linear_backoff(attempt, config), kept in sleeps, and the
\* next attempt
FloatBackoff ==
    /\ w_pc = "idle" /\ attempt <= config.max_retries
    /\ wait_time' = linear_backoff_float(attempt, config)
    /\ sleeps' = Append(sleeps, wait_time')
    /\ attempt' = attempt + 1
    /\ UNCHANGED <<config, retryable_exceptions, w_pc, func_calls, raised,
                   last_exception, w_outcome, sanVars, protoVars>>

NextFloatBackoff == FloatBackoff

SpecFloatBackoff == InitFloatBackoff /\ [][NextFloatBackoff]_vars

\* ------------------------------------------------------------------------
\* Specification of the configuration: the git_summary command builds the
\* RetryConfig from its options --retries, --min-wait and --max-wait, and
\* the backoff policy then uses it
\* ------------------------------------------------------------------------

InitOptions ==
    /\ config = DefaultRetryConfig
    /\ attempt \in 0..MaxAttempt
    /\ wait_time = NoWait
    /\ retryable_exceptions = {} /\ w_pc = "options" /\ func_calls = 0
    /\ sleeps = << >> /\ raised = << >> /\ last_exception = None
    /\ w_outcome = Running
    /\ SanIdle /\ ProtoIdle

\* retry_config = RetryConfig(max_retries=retries, min_wait=min_wait,
\*                            max_wait=max_wait)
\* the options are integers and no code restricts them
BuildRetryConfig(retries, min_wait, max_wait) ==
    /\ w_pc = "options"
    /\ config' = RetryConfig(retries, min_wait, max_wait)
    /\ w_pc' = "idle"
    /\ UNCHANGED <<attempt, wait_time, retryable_exceptions, func_calls,
                   sleeps, raised, last_exception, w_outcome, sanVars,
                   protoVars>>

NextOptions ==
    \/ \E retries \in (-1)..MaxRetries, min_wait \in 0..MaxWait,
          max_wait \in 0..MaxWait :
           BuildRetryConfig(retries, min_wait, max_wait)
    \/ Backoff

SpecOptions == InitOptions /\ [][NextOptions]_vars


\* ------------------------------------------------------------------------
\* Retrying call wrapper: with_retry
\* ------------------------------------------------------------------------

\* the exceptions the tests make the remote call raise, and a failed
\* connection (an exception that carries no status code: 0)
RateLimit429     == [cls |-> "RateLimitError",     status_code |-> 429]
Unavailable503   == [cls |-> "APIStatusError",     status_code |-> 503]
BadRequest400    == [cls |-> "APIStatusError",     status_code |-> 400]
ConnectionFailed == [cls |-> "APIConnectionError", status_code |-> 0]

Exceptions == {RateLimit429, Unavailable503, BadRequest400, ConnectionFailed}

\* what raise None raises
NoExceptionToRaise == [cls |-> "TypeError", status_code |-> 0]

\* the classes an exception of class cls is an instance of
ClassesOf(cls) ==
    CASE cls = "RateLimitError" ->
             {"RateLimitError", "APIStatusError", "APIError", "Exception"}
      [] cls = "APIStatusError" -> {"APIStatusError", "APIError", "Exception"}
      [] cls = "APIConnectionError" ->
             {"APIConnectionError", "APIError", "Exception"}
      [] OTHER -> {cls, "Exception"}

\* "except retryable_exceptions as e" catches e
CaughtAsRetryable(e, classes) == ClassesOf(e.cls) \cap classes # {}

\* the tuples of classes a caller may pass as retryable_exceptions
RetryableTuples ==
    SUBSET {"RateLimitError", "APIStatusError", "APIConnectionError"}

\* the value the wrapped function returns when it succeeds
FuncValue == <<"a">>

Returned(v) == [kind |-> "returned", value |-> v]
Raised(e)   == [kind |-> "raised", exc |-> e]

InitRetry ==
    /\ \E r \in (-1)..MaxRunRetries, w \in {<<2, 10>>, <<1, 1>>} :
           config = RetryConfig(r, w[1], w[2])
    /\ retryable_exceptions \in RetryableTuples
    /\ attempt = 0 /\ wait_time = NoWait /\ w_pc = "call"
    /\ func_calls = 0 /\ sleeps = << >> /\ raised = << >>
    /\ last_exception = None /\ w_outcome = Running
    /\ SanIdle /\ ProtoIdle

\* lines 33 and 52: range(config.max_retries + 1) is empty, the loop body
\* never runs and "raise last_exception" raises with last_exception None
LoopNeverRuns ==
    /\ w_pc = "call" /\ attempt > config.max_retries
    /\ w_pc' = "done"
    /\ w_outcome' = Raised(NoExceptionToRaise)
    /\ UNCHANGED <<config, attempt, wait_time, retryable_exceptions,
                   func_calls, sleeps, raised, last_exception, sanVars,
                   protoVars>>

\* lines 34-35: func returns, and so does wrapper
FuncReturns ==
    /\ w_pc = "call" /\ attempt <= config.max_retries
    /\ func_calls' = func_calls + 1
    /\ w_pc' = "done"
    /\ w_outcome' = Returned(FuncValue)
    /\ UNCHANGED <<config, attempt, wait_time, retryable_exceptions, sleeps,
                   raised, last_exception, sanVars, protoVars>>

\* func raises e; the wrapper sleeps after every retryable failure, the
\* last one included, and gives up after the sleep
FuncRaises_SleepsBeforeGivingUp(e) ==
    /\ w_pc = "call" /\ attempt <= config.max_retries
    /\ func_calls' = func_calls + 1
    /\ raised' = Append(raised, e)
    /\ IF CaughtAsRetryable(e, retryable_exceptions)
       THEN /\ last_exception' = e
            /\ wait_time' = linear_backoff(attempt, config)
            /\ w_pc' = "sleep"
            /\ UNCHANGED w_outcome
       ELSE /\ w_pc' = "done"
            /\ w_outcome' = Raised(e)
            /\ UNCHANGED <<last_exception, wait_time>>
    /\ UNCHANGED <<config, attempt, retryable_exceptions, sleeps, sanVars,
                   protoVars>>

\* lines 34-50 and 52: func raises e
FuncRaises(e) ==
    /\ w_pc = "call" /\ attempt <= config.max_retries
    /\ func_calls' = func_calls + 1
    /\ raised' = Append(raised, e)
    /\ IF CaughtAsRetryable(e, retryable_exceptions)
       THEN /\ last_exception' = e
            /\ IF attempt >= config.max_retries
               THEN \* break, then raise last_exception
                    /\ w_pc' = "done"
                    /\ w_outcome' = Raised(e)
                    /\ UNCHANGED wait_time
               ELSE /\ wait_time' = linear_backoff(attempt, config)
                    /\ w_pc' = "sleep"
                    /\ UNCHANGED w_outcome
       ELSE \* except Exception as e: raise e
            /\ w_pc' = "done"
            /\ w_outcome' = Raised(e)
            /\ UNCHANGED <<last_exception, wait_time>>
    /\ UNCHANGED <<config, attempt, retryable_exceptions, sleeps, sanVars,
                   protoVars>>

\* line 47, and the next turn of the loop
Sleep ==
    /\ w_pc = "sleep"
    /\ sleeps' = Append(sleeps, wait_time)
    /\ attempt' = attempt + 1
    /\ w_pc' = "call"
    /\ UNCHANGED <<config, wait_time, retryable_exceptions, func_calls,
                   raised, last_exception, w_outcome, sanVars, protoVars>>

NextRetry ==
    \/ LoopNeverRuns
    \/ FuncReturns
    \/ \E e \in Exceptions : FuncRaises(e)
    \/ Sleep

SpecRetry == InitRetry /\ [][NextRetry]_vars

\* ------------------------------------------------------------------------
\* The remote call: AISummarizer._make_api_call
\* ------------------------------------------------------------------------

\* the text {"request_file": "<path>"} of a file request, one token of a
\* response each, and the path it names (a sequence of characters)
MarkerPath(token) ==
    CASE token = "{a/f}" -> <<"a", "/", "f">>
      [] token = "{a/b/f}" -> <<"a", "/", "b", "/", "f">>
      [] token = "{b/g}" -> <<"b", "/", "g">>
      [] token = "{f}"   -> <<"f">>

Markers == {"{a/f}", "{a/b/f}", "{b/g}", "{f}"}

\* message.content of the responses the model may give
ResponseContents ==
    { <<"a">>,                        \* a classification
      <<BT, "a", BT>>,                \* a classification in backticks
      <<" ">>,                        \* nothing but whitespace
      <<"{a/f}">>,                    \* a file request
      <<"{a/b/f}">>,                  \* a request for a file in b/
      <<"a", NL, "{f}", " ">>,        \* a file request after some prose
      <<"{b/g}", " ", "{a/f}">> }     \* two file requests

\* what one call of client.chat.completions.create does
CreateOutcomes ==
    {[kind |-> "raise", exc |-> e] : e \in {RateLimit429, BadRequest400}}
    \cup {[kind |-> "malformed"]}     \* a response without choices
    \cup {[kind |-> "response", content |-> c] :
              c \in ResponseContents \cup {None}}

\* _make_api_call(kwargs) when create does o: the content, trimmed, or None
make_api_call(o) ==
    CASE o.kind = "raise" -> None                  \* lines 73-79
      [] o.kind = "malformed" -> None              \* lines 65-69
      [] o.kind = "response" ->
             \* line 71; None.strip() raises AttributeError, lines 73-79
             IF o.content = None THEN None ELSE Strip(o.content)

\* "not x" for a text or None
Falsy(x) == x = None \/ x = << >>

\* ------------------------------------------------------------------------
\* Prompts: PromptBuilder.build_commit_analysis_prompt
\* ------------------------------------------------------------------------

\* the diff the command hands to the summarizer, as one element
DiffText == <<"diff --git a/f b/f">>

build_commit_analysis_prompt(diff, file_path, content) ==
    << [role |-> "system", content |-> [kind |-> "instructions"]],
       IF ~Falsy(file_path) /\ ~Falsy(content)
       THEN [role |-> "user",
             content |-> [kind |-> "diff_with_requested_file", diff |-> diff,
                          file_path |-> file_path, file_content |-> content]]
       ELSE [role |-> "user",
             content |-> [kind |-> "diff", diff |-> diff,
                          file_path |-> None, file_content |-> None]] >>

\* ------------------------------------------------------------------------
\* Version control: get_file_content_at_commit
\* ------------------------------------------------------------------------

CommitRefs == {"HEAD", "abc123"}

\* ref.lower() == ref
IsLowerCase(ref) == ref = "abc123"

\* f"{commit_ref}^"
ParentOf(ref) == <<ref, "^">>

\* what running git show <ref>:<path> may do
GitOutcomes ==
    { [kind |-> "stdout", out |-> <<"a", NL>>],
      [kind |-> "stdout", out |-> << >>],         \* an empty file
      [kind |-> "path_not_in_commit"],  \* "... does not exist in '<ref>'"
      [kind |-> "invalid_object"],      \* "... invalid object name ..."
      [kind |-> "other_git_error"],
      [kind |-> "git_not_installed"],
      [kind |-> "os_error"] }           \* e.g. git may not be executed

\* get_file_content_at_commit(ref, path) when git does o; ref is the
\* reference the function is given (lower tells whether it has no capitals)
get_file_content_at_commit(lower, o) ==
    CASE o.kind = "stdout" -> [kind |-> "return", value |-> o.out]
      [] o.kind = "path_not_in_commit" ->
             \* lines 199-201 look for the message with commit_ref as given
             \* in the lowercased stderr
             IF lower THEN [kind |-> "raise", exc |-> "FileNotFoundError"]
             ELSE [kind |-> "raise", exc |-> "CalledProcessError"]
      [] o.kind = "invalid_object" ->
             [kind |-> "raise", exc |-> "FileNotFoundError"]
      [] o.kind = "other_git_error" ->
             [kind |-> "raise", exc |-> "CalledProcessError"]
      [] o.kind = "git_not_installed" ->
             [kind |-> "raise", exc |-> "FileNotFoundError"]
      [] o.kind = "os_error" ->
             \* lines 213-216: any other exception is raised again
             [kind |-> "raise", exc |-> "PermissionError"]

\* ------------------------------------------------------------------------
\* Commit-impact analysis protocol: AISummarizer.analyze_commit_impact
\* ------------------------------------------------------------------------

\* the file named by the last file request of the response
LastRequestedFile(response) ==
    LET IsMarker(t) == t \in Markers
        found == SelectSeq(response, IsMarker)
    IN  IF found = << >> THEN None ELSE MarkerPath(found[Len(found)])

\* group(1) of re.search(r'{\s*"request_file"\s*:\s*"([^"]+)"\s*}', response),
\* the leftmost match; None without a match
FirstRequestedFile(response) ==
    LET before == LeadUntil(response, Markers, 1)
    IN  IF before = Len(response) THEN None
        ELSE MarkerPath(response[before + 1])

\* lines 392-395: one leading a/ or b/ removed
ActualFilePath(path) ==
    IF Len(path) >= 2 /\ path[1] \in {"a", "b"} /\ path[2] = "/"
    THEN SubSeq(path, 3, Len(path))
    ELSE path

\* the values analyze_commit_impact returns
TextResult(t) == [kind |-> "text", value |-> t]
\* line 404
RetrievalFailed(file) == [kind |-> "retrieval_failed", file |-> file]
\* line 425
FileNotFound(file, ref) ==
    [kind |-> "file_not_found", file |-> file, ref |-> ref]
\* line 429
FollowUpError(file, exc) ==
    [kind |-> "follow_up_error", file |-> file, exc |-> exc]

Init ==
    /\ side_effect \in [1..ScriptLen -> CreateOutcomes]
    /\ commit_ref \in CommitRefs
    /\ create_count = 0 /\ sent = << >> /\ pc = "INITIAL"
    /\ initial_response = Pending /\ requested_file = None
    /\ fetches = << >> /\ file_content = Pending
    /\ final_response = Pending /\ result = Running
    /\ strategy = NoStrategy /\ report = NoReport
    /\ diff_text = DiffText /\ options = NoOptions /\ git_ops = << >>
    /\ messageApproved = NotAsked
    /\ SanIdle /\ RetryIdle

\* the first remote call, made once more when it failed
InitialCall_CallsAgainOnFailure ==
    /\ pc = "INITIAL"
    /\ LET messages == build_commit_analysis_prompt(diff_text, None, None)
           first    == make_api_call(side_effect[create_count + 1])
           again    == Falsy(first)
           response == IF again
                       THEN make_api_call(side_effect[create_count + 2])
                       ELSE first
           file     == IF Falsy(response) THEN None
                       ELSE FirstRequestedFile(response)
       IN  /\ sent' = IF again THEN sent \o <<messages, messages>>
                      ELSE Append(sent, messages)
           /\ create_count' = create_count + (IF again THEN 2 ELSE 1)
           /\ initial_response' = response
           /\ requested_file' = file
           /\ IF Falsy(response)
              THEN pc' = "DONE" /\ result' = TextResult(None)
              ELSE IF ~Falsy(file)
              THEN pc' = "AWAITING_CONTEXT" /\ UNCHANGED result
              ELSE /\ pc' = "DONE"
                   /\ result' = TextResult(strip_backticks(response))
    /\ UNCHANGED <<side_effect, commit_ref, fetches, file_content,
                   final_response, strategy, report, sanVars, retryVars,
                   cmdVars>>

\* the first remote call, its response returned as it is when it holds no
\* file request
InitialCall_Unsanitized ==
    /\ pc = "INITIAL"
    /\ LET messages == build_commit_analysis_prompt(diff_text, None, None)
           response == make_api_call(side_effect[create_count + 1])
           file     == IF Falsy(response) THEN None
                       ELSE FirstRequestedFile(response)
       IN  /\ sent' = Append(sent, messages)
           /\ create_count' = create_count + 1
           /\ initial_response' = response
           /\ requested_file' = file
           /\ IF Falsy(response)
              THEN pc' = "DONE" /\ result' = TextResult(None)
              ELSE IF ~Falsy(file)
              THEN pc' = "AWAITING_CONTEXT" /\ UNCHANGED result
              ELSE pc' = "DONE" /\ result' = TextResult(response)
    /\ UNCHANGED <<side_effect, commit_ref, fetches, file_content,
                   final_response, strategy, report, sanVars, retryVars,
                   cmdVars>>

\* lines 361-387 and 430-433: the first remote call and the search for a
\* file request in its response
InitialCall ==
    /\ pc = "INITIAL"
    /\ LET messages == build_commit_analysis_prompt(diff_text, None, None)
           response == make_api_call(side_effect[create_count + 1])
           file     == IF Falsy(response) THEN None
                       ELSE FirstRequestedFile(response)
       IN  /\ sent' = Append(sent, messages)
           /\ create_count' = create_count + 1
           /\ initial_response' = response
           /\ requested_file' = file
           /\ IF Falsy(response)
              THEN pc' = "DONE" /\ result' = TextResult(None)
              ELSE IF ~Falsy(file)
              THEN pc' = "AWAITING_CONTEXT" /\ UNCHANGED result
              ELSE /\ pc' = "DONE"
                   /\ result' = TextResult(strip_backticks(response))
    /\ UNCHANGED <<side_effect, commit_ref, fetches, file_content,
                   final_response, strategy, report, sanVars, retryVars,
                   cmdVars>>

\* the fetch, with every failure other than a missing file left to
\* propagate to the caller
FetchFile_PropagatesOtherErrors(o) ==
    /\ pc = "AWAITING_CONTEXT"
    /\ LET actual_file_path  == ActualFilePath(requested_file)
           parent_commit_ref == ParentOf(commit_ref)
           got == get_file_content_at_commit(IsLowerCase(commit_ref), o)
       IN  /\ fetches' = Append(fetches, [commit_ref |-> parent_commit_ref,
                                          file_path |-> actual_file_path,
                                          git |-> o])
           /\ IF got.kind = "return"
              THEN /\ file_content' = got.value
                   /\ pc' = "FOLLOW_UP" /\ UNCHANGED result
              ELSE /\ pc' = "DONE"
                   /\ UNCHANGED file_content
                   /\ result' =
                          IF got.exc = "FileNotFoundError"
                          THEN FileNotFound(requested_file, parent_commit_ref)
                          ELSE [kind |-> "raised", exc |-> got.exc]
    /\ UNCHANGED <<side_effect, create_count, sent, commit_ref,
                   initial_response, requested_file, final_response,
                   strategy, report, sanVars, retryVars,
                   cmdVars>>

\* the fetch, made at commit_ref itself
FetchFile_AtCommitItself(o) ==
    /\ pc = "AWAITING_CONTEXT"
    /\ LET actual_file_path  == ActualFilePath(requested_file)
           parent_commit_ref == <<commit_ref>>
           got == get_file_content_at_commit(IsLowerCase(commit_ref), o)
       IN  /\ fetches' = Append(fetches, [commit_ref |-> parent_commit_ref,
                                          file_path |-> actual_file_path,
                                          git |-> o])
           /\ IF got.kind = "return"
              THEN /\ file_content' = got.value
                   /\ pc' = "FOLLOW_UP" /\ UNCHANGED result
              ELSE /\ pc' = "DONE"
                   /\ UNCHANGED file_content
                   /\ result' =
                          IF got.exc = "FileNotFoundError"
                          THEN FileNotFound(requested_file, parent_commit_ref)
                          ELSE FollowUpError(requested_file, got.exc)
    /\ UNCHANGED <<side_effect, create_count, sent, commit_ref,
                   initial_response, requested_file, final_response,
                   strategy, report, sanVars, retryVars,
                   cmdVars>>

\* lines 389-406 and 422-429: the requested file is fetched at the parent
\* of commit_ref; git does o
FetchFile(o) ==
    /\ pc = "AWAITING_CONTEXT"
    /\ LET actual_file_path  == ActualFilePath(requested_file)
           parent_commit_ref == ParentOf(commit_ref)
           got == get_file_content_at_commit(IsLowerCase(commit_ref), o)
       IN  /\ fetches' = Append(fetches, [commit_ref |-> parent_commit_ref,
                                          file_path |-> actual_file_path,
                                          git |-> o])
           /\ IF got.kind = "return"
              THEN /\ file_content' = got.value
                   /\ IF got.value = None
                      THEN /\ pc' = "DONE"
                           /\ result' = RetrievalFailed(requested_file)
                      ELSE pc' = "FOLLOW_UP" /\ UNCHANGED result
              ELSE /\ pc' = "DONE"
                   /\ UNCHANGED file_content
                   /\ result' =
                          IF got.exc = "FileNotFoundError"
                          THEN FileNotFound(requested_file, parent_commit_ref)
                          ELSE FollowUpError(requested_file, got.exc)
    /\ UNCHANGED <<side_effect, create_count, sent, commit_ref,
                   initial_response, requested_file, final_response,
                   strategy, report, sanVars, retryVars,
                   cmdVars>>

\* the second remote call, also honouring a file request in its response
FollowUpCall_HonoursSecondRequest ==
    /\ pc = "FOLLOW_UP"
    /\ LET messages == build_commit_analysis_prompt(diff_text, requested_file,
                                                    file_content)
           response == make_api_call(side_effect[create_count + 1])
           file     == IF Falsy(response) THEN None
                       ELSE FirstRequestedFile(response)
       IN  /\ sent' = Append(sent, messages)
           /\ create_count' = create_count + 1
           /\ final_response' = response
           /\ IF ~Falsy(file) /\ create_count + 1 < ScriptLen
              THEN /\ pc' = "AWAITING_CONTEXT"
                   /\ requested_file' = file
                   /\ UNCHANGED result
              ELSE /\ pc' = "DONE"
                   /\ result' = TextResult(strip_backticks(response))
                   /\ UNCHANGED requested_file
    /\ UNCHANGED <<side_effect, commit_ref, initial_response, fetches,
                   file_content, strategy, report, sanVars, retryVars,
                   cmdVars>>

\* the second remote call, the first response returned after it
FollowUpCall_ReturnsInitial ==
    /\ pc = "FOLLOW_UP"
    /\ LET messages == build_commit_analysis_prompt(diff_text, requested_file,
                                                    file_content)
           response == make_api_call(side_effect[create_count + 1])
       IN  /\ sent' = Append(sent, messages)
           /\ create_count' = create_count + 1
           /\ final_response' = response
           /\ result' = TextResult(strip_backticks(initial_response))
           /\ pc' = "DONE"
    /\ UNCHANGED <<side_effect, commit_ref, initial_response,
                   requested_file, fetches, file_content, strategy, report,
                   sanVars, retryVars,
                   cmdVars>>

\* lines 408-420: the second remote call, with the file content
FollowUpCall ==
    /\ pc = "FOLLOW_UP"
    /\ LET messages == build_commit_analysis_prompt(diff_text, requested_file,
                                                    file_content)
           response == make_api_call(side_effect[create_count + 1])
       IN  /\ sent' = Append(sent, messages)
           /\ create_count' = create_count + 1
           /\ final_response' = response
           /\ result' = TextResult(strip_backticks(response))
           /\ pc' = "DONE"
    /\ UNCHANGED <<side_effect, commit_ref, initial_response,
                   requested_file, fetches, file_content, strategy, report,
                   sanVars, retryVars,
                   cmdVars>>

Next ==
    \/ InitialCall
    \/ \E o \in GitOutcomes : FetchFile(o)
    \/ FollowUpCall

\* analyze_commit_impact is one sequential call: once started it runs on to
\* its return, so as long as it has not returned its next step is taken
Proceeds ==
    /\ pc # "DONE"
    /\ pc' \in {"AWAITING_CONTEXT", "FOLLOW_UP", "DONE"}
    /\ pc' # pc

Spec == Init /\ [][Next]_vars /\ WF_pc(Proceeds)

\* ------------------------------------------------------------------------
\* The analyze-commit command, from the fetch of the diff on
\* ------------------------------------------------------------------------

\* what running git show --pretty=format: <commit_ref> may do
DiffOutcomes ==
    { [kind |-> "stdout", out |-> <<NL>> \o DiffText \o <<NL>>],
      [kind |-> "stdout", out |-> <<" ", NL>>],  \* nothing but whitespace
      [kind |-> "stdout", out |-> << >>],        \* a commit without changes
      [kind |-> "unknown_revision"],
      [kind |-> "other_git_error"],
      [kind |-> "git_not_installed"],
      [kind |-> "os_error"] }

\* get_commit_diff(commit_ref) when git does o: the trimmed output (the
\* empty text when nothing is left), None after any failure
get_commit_diff(o) ==
    IF o.kind = "stdout" THEN Strip(o.out) ELSE None

\* the ways the command ends
ExitWith(kind, printed, exit_code) ==
    [kind |-> kind, text |-> printed, exit_code |-> exit_code]

\* "if x" for a value analyze_commit_impact returned
Truthy(r) == r.kind # "text" \/ ~Falsy(r.value)

InitAnalyzeCommit ==
    /\ side_effect \in [1..ScriptLen -> CreateOutcomes]
    /\ commit_ref \in CommitRefs
    /\ create_count = 0 /\ sent = << >> /\ pc = "GET_DIFF"
    /\ initial_response = Pending /\ requested_file = None
    /\ fetches = << >> /\ file_content = Pending
    /\ final_response = Pending /\ result = Running
    /\ strategy = NoStrategy /\ report = NoReport
    /\ diff_text = Pending /\ options = [command |-> "analyze-commit"]
    /\ git_ops = << >> /\ messageApproved = NotAsked
    /\ SanIdle /\ RetryIdle

\* the fetch of the diff, an empty diff reported like a failed fetch
GetCommitDiff_EmptyAsFailure(o) ==
    /\ pc = "GET_DIFF"
    /\ LET diff == get_commit_diff(o)
       IN  /\ diff_text' = diff
           /\ git_ops' = Append(git_ops, [op |-> "show", git |-> o])
           /\ IF Falsy(diff)
              THEN /\ report' = ExitWith("error", "Could not retrieve diff", 1)
                   /\ pc' = "EXIT"
              ELSE pc' = "INITIAL" /\ UNCHANGED report
    /\ UNCHANGED <<side_effect, create_count, sent, commit_ref,
                   initial_response, requested_file, fetches, file_content,
                   final_response, result, strategy, options,
                   messageApproved, sanVars,
                   retryVars>>

\* lines 70-79: the diff of the commit is fetched; without a diff the
\* command ends here
GetCommitDiff(o) ==
    /\ pc = "GET_DIFF"
    /\ LET diff == get_commit_diff(o)
       IN  /\ diff_text' = diff
           /\ git_ops' = Append(git_ops, [op |-> "show", git |-> o])
           /\ IF diff = None
              THEN \* lines 73-75
                   /\ report' = ExitWith("error", "Could not retrieve diff", 1)
                   /\ pc' = "EXIT"
              ELSE IF Falsy(diff)
              THEN \* lines 77-79: typer.Exit() has the exit code 0
                   /\ report' = ExitWith("panel", "Nothing to analyze", 0)
                   /\ pc' = "EXIT"
              ELSE pc' = "INITIAL" /\ UNCHANGED report
    /\ UNCHANGED <<side_effect, create_count, sent, commit_ref,
                   initial_response, requested_file, fetches, file_content,
                   final_response, result, strategy, options,
                   messageApproved, sanVars,
                   retryVars>>

\* lines 93-99: the value analyze_commit_impact returned is shown in a
\* panel, or the failure is reported
ReportAnalysis ==
    /\ pc = "DONE"
    /\ report' = IF Truthy(result)
                 THEN ExitWith("panel", "Analysis Result", 0)
                 ELSE ExitWith("error", "Failed to get analysis from AI", 1)
    /\ pc' = "EXIT"
    /\ UNCHANGED <<side_effect, create_count, sent, commit_ref,
                   initial_response, requested_file, fetches, file_content,
                   final_response, result, strategy, sanVars, retryVars,
                   cmdVars>>

NextAnalyzeCommit ==
    \/ \E o \in DiffOutcomes : GetCommitDiff(o)
    \/ Next
    \/ ReportAnalysis

SpecAnalyzeCommit == InitAnalyzeCommit /\ [][NextAnalyzeCommit]_vars

\* ------------------------------------------------------------------------
\* Commit message and feedback generation: AISummarizer.summarize_changes,
\* AISummarizer.generate_code_feedback and the git-feedback command
\* ------------------------------------------------------------------------

\* the strategy names summarize_changes has a branch for
AcceptedStrategies == {"ai", "short", "detailed"}

\* the names the message of the ValueError gives as valid
NamedValidOptions == {"unified", "short", "detailed"}

\* the strategy names a caller may pass
StrategyNames == AcceptedStrategies \cup {"unified", "feedback"}

\* the method of PromptBuilder that summarize_changes uses for a strategy
StrategyPromptBuilder(s) ==
    CASE s = "ai"       -> "build_unified_prompt"
      [] s = "short"    -> "build_short_diff_prompt"
      [] s = "detailed" -> "build_diff_prompt"

\* the message set such a method returns: instructions, then the diff
BuiltPrompt(builder, diff) ==
    << [role |-> "system",
        content |-> [kind |-> "instructions", of |-> builder]],
       [role |-> "user", content |-> [kind |-> "diff", diff |-> diff]] >>

\* raise ValueError(f"Invalid strategy: {strategy}. Valid options are ...")
InvalidStrategy(value) ==
    [kind |-> "raised", exc |-> "ValueError", value |-> value,
     valid_options |-> NamedValidOptions]

\* message.content of the responses to a summary or feedback request
MessageContents == UNION {[1..n -> Alphabet] : n \in 0..MaxMessageLen}

SummaryOutcomes ==
    {[kind |-> "raise", exc |-> e] : e \in {RateLimit429, BadRequest400}}
    \cup {[kind |-> "malformed"]}
    \cup {[kind |-> "response", content |-> c] :
              c \in MessageContents \cup {None}}

InitSummarize ==
    /\ side_effect \in [1..1 -> SummaryOutcomes]
    /\ \/ pc = "SUMMARIZE" /\ strategy \in StrategyNames
       \/ pc = "FEEDBACK" /\ strategy = NoStrategy
    /\ create_count = 0 /\ sent = << >> /\ commit_ref = "HEAD"
    /\ initial_response = Pending /\ requested_file = None
    /\ fetches = << >> /\ file_content = Pending
    /\ final_response = Pending /\ result = Running /\ report = NoReport
    /\ diff_text = DiffText /\ options = NoOptions /\ git_ops = << >>
    /\ messageApproved = NotAsked
    /\ SanIdle /\ RetryIdle

\* summarize_changes(diff_text, model, strategy)
SummarizeChanges ==
    /\ pc = "SUMMARIZE"
    /\ IF strategy \notin AcceptedStrategies
       THEN \* line 329
            /\ result' = InvalidStrategy(strategy)
            /\ UNCHANGED <<sent, create_count>>
       ELSE \* lines 331-338
            LET messages == BuiltPrompt(StrategyPromptBuilder(strategy),
                                        diff_text)
                summary  == make_api_call(side_effect[create_count + 1])
            IN  /\ sent' = Append(sent, messages)
                /\ create_count' = create_count + 1
                /\ result' = TextResult(strip_backticks(summary))
    /\ pc' = "DONE"
    /\ UNCHANGED <<side_effect, commit_ref, initial_response, requested_file,
                   fetches, file_content, final_response, strategy, report,
                   sanVars, retryVars,
                   cmdVars>>

\* generate_code_feedback(diff_text, model), called by the git-feedback
\* command
GenerateCodeFeedback ==
    /\ pc = "FEEDBACK"
    /\ LET messages == BuiltPrompt("build_feedback_prompt", diff_text)
           feedback == make_api_call(side_effect[create_count + 1])
       IN  /\ sent' = Append(sent, messages)
           /\ create_count' = create_count + 1
           /\ result' = TextResult(feedback)
    /\ pc' = "PRINT_FEEDBACK"
    /\ UNCHANGED <<side_effect, commit_ref, initial_response, requested_file,
                   fetches, file_content, final_response, strategy, report,
                   sanVars, retryVars,
                   cmdVars>>

\* what console.print(Panel(feedback_text, ...)) may do: a panel with the
\* text; for None, which is no renderable, the rendering either fails or
\* shows an empty panel
PanelOutcomes(feedback_text) ==
    IF feedback_text = None
    THEN {[kind |-> "crash", exc |-> "NotRenderableError"],
          [kind |-> "panel", title |-> "Code Quality Feedback",
           body |-> None]}
    ELSE {[kind |-> "panel", title |-> "Code Quality Feedback",
           body |-> feedback_text]}

\* the git-feedback command prints the value generate_code_feedback returned
FeedbackPrints ==
    /\ pc = "PRINT_FEEDBACK"
    /\ report' \in PanelOutcomes(result.value)
    /\ pc' = "DONE"
    /\ UNCHANGED <<side_effect, create_count, sent, commit_ref,
                   initial_response, requested_file, fetches, file_content,
                   final_response, result, strategy, sanVars, retryVars,
                   cmdVars>>

NextSummarize ==
    \/ SummarizeChanges
    \/ GenerateCodeFeedback
    \/ FeedbackPrints

SpecSummarize == InitSummarize /\ [][NextSummarize]_vars

\* ------------------------------------------------------------------------
\* Specification of the git-summary command: ai_git/commands/git_summary.py
\* (git_summary) and git_summarize/commands/git_summary.py (main). From the
\* construction of the summarizer on, the two functions are the same code;
\* they differ in the model-alias resolution and the dry run that only
\* ai_git has, and in the arguments they construct AISummarizer with.
\* ------------------------------------------------------------------------

\* the two commands
AiGitSummary == "ai_git.git_summary"
GitSummarizeMain == "git_summarize.main"

\* what --model can be: an identifier with a slash, an alias of
\* config/model-aliases.yaml, a name that is not in that file, a name looked
\* up while the file is missing
ModelKinds == {"full_id", "alias", "unknown_alias", "alias_no_config"}

\* resolve_model_alias(model, raise_on_unknown=True)
resolve_model_alias(m) ==
    CASE m = "full_id" -> Returned("full_id")                \* lines 38-40
      [] m = "alias_no_config" -> Returned(m)                \* lines 49-51
      [] m = "alias" -> Returned("full_id")                  \* lines 63-66
      [] m = "unknown_alias" -> Raised("UnknownModelAliasError")

\* the strategies given to the command: the three with a branch and one
\* without
CommandStrategies == AcceptedStrategies \cup {"unified"}

\* the options a command is started with
GitSummaryOptions ==
    [command : {AiGitSummary}, model : ModelKinds, stage_all : BOOLEAN,
     push : BOOLEAN, always_accept_commit_message : BOOLEAN,
     dry_run : BOOLEAN]
    \cup
    [command : {GitSummarizeMain}, model : {"full_id"}, stage_all : BOOLEAN,
     push : BOOLEAN, always_accept_commit_message : BOOLEAN,
     dry_run : {FALSE}]

\* the parameters of AISummarizer.__init__ besides self, the same in both
\* packages
InitParameters == {"client"}

\* the arguments a command constructs the summarizer with
ConstructorArguments(command) ==
    IF command = AiGitSummary THEN {"client", "retry_config"}
    ELSE {"client"}

\* what inquirer.prompt returns for a Confirm question: the answer, or None
\* when the prompt is interrupted
Answers == {"yes", "no", "none"}

\* "answers and answers[...]"
Confirmed(answer) == answer = "yes"

\* what "git diff" does for check_unstaged_changes, "git diff --cached" for
\* get_git_diff
GitDiffOutcomes == {"changes", "empty", "git_error"}

\* check_unstaged_changes()[0]
has_unstaged(o) == o = "changes"

\* get_git_diff()
get_git_diff(o) == IF o = "changes" THEN DiffText ELSE None

\* _make_api_call of git_summarize's AISummarizer: the content, trimmed, or
\* None
summarizer_make_api_call(o) ==
    CASE o.kind = "raise" -> None
      [] o.kind = "malformed" -> None
      [] o.kind = "response" ->
             IF o.content = None THEN None ELSE Strip(o.content)

\* the value of messageApproved and where it came from
Approval(answer, value) == [answer |-> answer, value |-> value]

\* the parts of the state the command layer does not touch
summarizerVars == <<side_effect, sent, commit_ref, initial_response,
                    requested_file, fetches, file_content, final_response>>

InitGitSummary ==
    /\ options \in GitSummaryOptions
    /\ strategy \in CommandStrategies
    /\ pc = IF options.command = AiGitSummary THEN "RESOLVE" ELSE "SETUP"
    /\ side_effect = << >> /\ create_count = 0 /\ sent = << >>
    /\ commit_ref = "HEAD" /\ initial_response = Pending
    /\ requested_file = None /\ fetches = << >> /\ file_content = Pending
    /\ final_response = Pending /\ result = Running /\ report = NoReport
    /\ diff_text = Pending /\ git_ops = << >> /\ messageApproved = NotAsked
    /\ SanIdle /\ RetryIdle

\* ai_git lines 56-93: the alias is resolved; an unknown alias ends the
\* command with exit code 1, a dry run ends it after the resolution
ResolveModel ==
    /\ pc = "RESOLVE"
    /\ LET resolved == resolve_model_alias(options.model)
       IN  IF resolved.kind = "raised"
           THEN /\ report' = ExitWith("error", "Unknown model alias", 1)
                /\ pc' = "EXIT"
           ELSE IF options.dry_run
           THEN /\ report' = ExitWith("text", "Dry run completed", 0)
                /\ pc' = "EXIT"
           ELSE pc' = "SETUP" /\ UNCHANGED report
    /\ UNCHANGED <<summarizerVars, create_count, result, strategy, sanVars,
                   retryVars, cmdVars>>

\* ai_git lines 95-97, git_summarize lines 44-45: the client and the
\* summarizer are constructed; an argument __init__ has no parameter for is
\* a TypeError
ConstructSummarizer ==
    /\ pc = "SETUP"
    /\ IF ConstructorArguments(options.command) \subseteq InitParameters
       THEN pc' = "CHECK_UNSTAGED" /\ UNCHANGED report
       ELSE /\ report' = ExitWith("raised", "TypeError", 1)
            /\ pc' = "EXIT"
    /\ UNCHANGED <<summarizerVars, create_count, result, strategy, sanVars,
                   retryVars, cmdVars>>

\* git_summarize lines 47-63 (ai_git 99-115): unstaged changes are staged
\* with --stage-all or when the user says so
CheckUnstaged(o, answer, staged) ==
    /\ pc = "CHECK_UNSTAGED"
    /\ LET stage == has_unstaged(o) /\ (options.stage_all \/ Confirmed(answer))
       IN  git_ops' = git_ops \o << [op |-> "diff", git |-> o] >>
                      \o (IF stage THEN << [op |-> "add", ok |-> staged] >>
                          ELSE << >>)
    /\ pc' = "GET_STAGED_DIFF"
    /\ UNCHANGED <<summarizerVars, create_count, result, strategy, report,
                   diff_text, options, messageApproved, sanVars, retryVars>>

\* git_summarize lines 65, 67 and 105-106 (ai_git 117, 119, 157-158):
\* without a staged diff there is nothing to summarize
GetGitDiff(o) ==
    /\ pc = "GET_STAGED_DIFF"
    /\ diff_text' = get_git_diff(o)
    /\ git_ops' = Append(git_ops, [op |-> "diff --cached", git |-> o])
    /\ IF Falsy(get_git_diff(o))
       THEN /\ report' = ExitWith("text", "No changes to summarize", 0)
            /\ pc' = "EXIT"
       ELSE pc' = "SUMMARIZE_STAGED" /\ UNCHANGED report
    /\ UNCHANGED <<summarizerVars, create_count, result, strategy, options,
                   messageApproved, sanVars, retryVars>>

\* git_summarize lines 68-75 and 103-104 (ai_git 120-127, 155-156):
\* summarize_changes makes one call of create, or raises ValueError for a
\* strategy it has no branch for; without a message the command ends
SummarizeStagedDiff(o) ==
    /\ pc = "SUMMARIZE_STAGED"
    /\ IF strategy \notin AcceptedStrategies
       THEN /\ result' = Raised("ValueError")
            /\ report' = ExitWith("raised", "ValueError", 1)
            /\ pc' = "EXIT"
            /\ UNCHANGED create_count
       ELSE LET commit_message == summarizer_make_api_call(o)
            IN  /\ create_count' = create_count + 1
                /\ result' = TextResult(commit_message)
                /\ IF Falsy(commit_message)
                   THEN /\ report' = ExitWith("error",
                                "Failed to generate commit message using API", 0)
                        /\ pc' = "EXIT"
                   ELSE /\ report' = ExitWith("panel",
                                "Suggested commit message", 0)
                        /\ pc' = "APPROVE"
    /\ UNCHANGED <<summarizerVars, strategy, sanVars, retryVars, cmdVars>>

\* the approval step without the test of messageApproved
ApproveMessage_CommitsAnyway(answer) ==
    /\ pc = "APPROVE"
    /\ messageApproved' =
           IF options.always_accept_commit_message
           THEN Approval("not asked", "True")
           ELSE Approval(answer, IF Confirmed(answer) THEN "True"
                                 ELSE IF answer = "no" THEN "False"
                                 ELSE "None")
    /\ pc' = "COMMIT"
    /\ UNCHANGED <<summarizerVars, create_count, result, strategy, report,
                   diff_text, options, git_ops, sanVars, retryVars>>

\* git_summarize lines 77-89 (ai_git 129-141): the message is approved by
\* --always-accept-commit-message or by the user
ApproveMessage(answer) ==
    /\ pc = "APPROVE"
    /\ messageApproved' =
           IF options.always_accept_commit_message
           THEN Approval("not asked", "True")
           ELSE Approval(answer, IF Confirmed(answer) THEN "True"
                                 ELSE IF answer = "no" THEN "False"
                                 ELSE "None")
    /\ pc' = IF messageApproved'.value = "True" THEN "COMMIT" ELSE "EXIT"
    /\ UNCHANGED <<summarizerVars, create_count, result, strategy, report,
                   diff_text, options, git_ops, sanVars, retryVars>>

\* git_summarize line 90 (ai_git 142): commit_changes(commit_message)
CommitChanges(ok) ==
    /\ pc = "COMMIT"
    /\ git_ops' = Append(git_ops, [op |-> "commit",
                                   message |-> result.value, ok |-> ok])
    /\ pc' = IF ok THEN "PUSH" ELSE "EXIT"
    /\ UNCHANGED <<summarizerVars, create_count, result, strategy, report,
                   diff_text, options, messageApproved, sanVars, retryVars>>

\* git_summarize lines 91-102 (ai_git 143-154): the commit is pushed with
\* --push or when the user says so
PushChanges(answer, ok) ==
    /\ pc = "PUSH"
    /\ git_ops' = IF options.push \/ Confirmed(answer)
                  THEN Append(git_ops, [op |-> "push", ok |-> ok])
                  ELSE git_ops
    /\ pc' = "EXIT"
    /\ UNCHANGED <<summarizerVars, create_count, result, strategy, report,
                   diff_text, options, messageApproved, sanVars, retryVars>>

NextGitSummary ==
    \/ ResolveModel
    \/ ConstructSummarizer
    \/ \E o \in GitDiffOutcomes, answer \in Answers, staged \in BOOLEAN :
           CheckUnstaged(o, answer, staged)
    \/ \E o \in GitDiffOutcomes : GetGitDiff(o)
    \/ \E o \in CreateOutcomes : SummarizeStagedDiff(o)
    \/ \E answer \in Answers : ApproveMessage(answer)
    \/ \E ok \in BOOLEAN : CommitChanges(ok)
    \/ \E answer \in Answers, ok \in BOOLEAN : PushChanges(answer, ok)

SpecGitSummary == InitGitSummary /\ [][NextGitSummary]_vars

\* ------------------------------------------------------------------------
\* Properties of the backoff policy (checked under SpecBackoff)
\* ------------------------------------------------------------------------

Min(x, y) == IF x <= y THEN x ELSE y

\* the waits the test test_linear_backoff_calculation expects for
\* RetryConfig(max_retries=5, min_wait=2, max_wait=10), attempts 0..5
ExpectedWaits == <<2, 4, 6, 8, 10, 10>>

\* C6: for max_retries >= 2 the wait is min(min_wait + attempt * step,
\* max_wait) with step = (max_wait - min_wait) / (max_retries - 1) and the
\* attempt counted from zero (stated with both sides multiplied by
\* max_retries - 1); for RetryConfig(5, 2, 10) the waits of the attempts
\* 0..5 are 2, 4, 6, 8, 10, 10.
C6_LinearBackoffFormula ==
    (wait_time # NoWait /\ config.max_retries >= 2) =>
        LET d == config.max_retries - 1
        IN  /\ wait_time.den > 0
            /\ wait_time.num * d =
                   wait_time.den *
                       Min(config.min_wait * d
                               + attempt * (config.max_wait - config.min_wait),
                           config.max_wait * d)
            /\ (config = RetryConfig(5, 2, 10) /\ attempt <= 5) =>
                   wait_time = Rat(ExpectedWaits[attempt + 1], 1)

C6_Witness ==
    /\ config = RetryConfig(5, 2, 10) /\ attempt = 4
    /\ wait_time = Rat(10, 1)

\* C7: with max_retries <= 1 (0 and negative values included) the wait is
\* exactly min_wait, whatever the attempt number and max_wait are.
C7_SingleRetryWaitsMinWait ==
    (wait_time # NoWait /\ config.max_retries <= 1) =>
        wait_time = [num |-> config.min_wait, den |-> 1]

C7_Witness ==
    /\ config.max_retries = 1 /\ attempt = 3
    /\ config.min_wait = 2 /\ config.max_wait = 9
    /\ wait_time = Rat(2, 1)

\* ------------------------------------------------------------------------
\* Properties of the configuration (checked under SpecOptions)
\* ------------------------------------------------------------------------

\* C17: every RetryConfig that is constructed and used, one built by the
\* git_summary command from its options included, has
\* min_wait <= max_wait and max_retries >= 0.
C17_ConfigWellFormed ==
    w_pc = "idle" =>
        /\ config.min_wait <= config.max_wait
        /\ config.max_retries >= 0

\* ------------------------------------------------------------------------
\* Properties of the sanitizer (checked under SpecSanitizer)
\* ------------------------------------------------------------------------

\* t begins and ends with a backtick
WrappedInBackticks(t) == Len(t) >= 1 /\ t[1] = BT /\ t[Len(t)] = BT

\* C8 as claimed: sanitize(sanitize(t)) = sanitize(t) for every text t,
\* texts wrapped in several layers of backticks included.  Stated for the
\* texts whose sanitized result is not empty: the empty result is the
\* subject of C9.
C8_IdempotentAsClaimed ==
    (san_step = 2 /\ out1 # << >>) => out2 = out1

\* C8 as amended: a second application changes nothing exactly when the
\* first result is absent, or is a non-empty text that does not both begin
\* and end with a backtick.
C8_IdempotentUnlessStillWrapped ==
    san_step = 2 =>
        ((out2 = out1) <=>
            (out1 = None \/ (out1 # << >> /\ ~WrappedInBackticks(out1))))

C8_Witness ==
    /\ san_step = 2
    /\ text # None /\ TripleMatches(Strip(text))
    /\ out1 \notin {None, << >>}
    /\ out2 = out1

\* C9: the result is None whenever nothing is left after the stripping, and
\* a result that is not None is non-empty and has no whitespace at either
\* end.
C9_EmptyResultIsNone ==
    san_step >= 1 =>
        \/ out1 = None
        \/ /\ out1 # << >>
           /\ ~IsSpace(out1[1]) /\ ~IsSpace(out1[Len(out1)])

\* a line that is nothing but backticks, whitespace around them allowed
IsFenceLine(line) ==
    LET l == Strip(line)
    IN  l # << >> /\ \A i \in 1..Len(l) : l[i] = BT

IsNotFenceLine(line) == ~IsFenceLine(line)

\* C10: of the lines of the text (trimmed, its surrounding backticks
\* removed) exactly those made of backticks alone are removed; every other
\* line, a blank line between two content lines included, is kept as it is
\* and in order.
C10_OnlyFenceLinesRemoved ==
    (san_step >= 1 /\ text # None /\ Strip(text) # << >>) =>
        out1 = Strip(JoinLines(SelectSeq(
                   SplitLines(RemoveSurrounding(Strip(text))),
                   IsNotFenceLine)))

\* the text is empty or holds nothing but whitespace
IsBlank(t) == \A i \in 1..Len(t) : IsSpace(t[i])

\* C12: the result is None for the input None, for the empty string and for
\* every input that holds nothing but whitespace.
C12_AbsentForBlankInput ==
    (san_step >= 1 /\ (text = None \/ IsBlank(text))) => out1 = None

C12_Witness ==
    /\ san_step >= 1
    /\ text = <<" ", NL, " ">>
    /\ out1 = None

\* ------------------------------------------------------------------------
\* Properties of the sanitizer on wrapped texts (checked under SpecWrapped)
\* ------------------------------------------------------------------------

\* t opens and closes with three backticks
HasFences(t) ==
    /\ Len(t) >= 6
    /\ SubSeq(t, 1, 3) = Ticks(3)
    /\ SubSeq(t, Len(t) - 2, Len(t)) = Ticks(3)

\* t is one fenced block: no backtick between its two fences
IsFencedBlock(t) ==
    HasFences(t) /\ \A i \in 4..(Len(t) - 3) : t[i] # BT

\* what lies between the language tag (the identifier characters right
\* after the opening fence) and the closing fence
FenceInterior(t) ==
    LET inside == SubSeq(t, 4, Len(t) - 3)
    IN  SubSeq(inside, LeadRun(inside, LangChars, 1) + 1, Len(inside))

\* a line that is neither blank nor made of backticks alone
IsTextLine(line) == Strip(line) # << >> /\ IsNotFenceLine(line)

\* s, trimmed, reduced to its text lines
TextLines(s) == Strip(JoinLines(SelectSeq(SplitLines(Strip(s)), IsTextLine)))

\* C11: for a text that is one fenced block the result is exactly the
\* interior of the block, trimmed: the fences and the tag are removed and
\* nothing of the interior is.  For a text that has backticks at both ends
\* without being fenced, those backticks are stripped (stated for the text
\* lines of what is left: the claim says nothing of its other lines).
C11_FencedInteriorReturned ==
    (san_step >= 1 /\ text # None) =>
        LET t == Strip(text)
        IN  IF IsFencedBlock(t)
            THEN out1 = Strip(FenceInterior(t))
            ELSE (~HasFences(t) /\ WrappedInBackticks(t)) =>
                     out1 = TextLines(StripBackticks(t))


\* ------------------------------------------------------------------------
\* Properties of the retrying call wrapper (checked under SpecRetry)
\* ------------------------------------------------------------------------

\* the error carries a status code of config.retryable_status_codes, or is
\* a failure of the connection
RetryableByStatus(e) ==
    \/ e.status_code \in config.retryable_status_codes
    \/ e.cls = "APIConnectionError"

\* every invocation of the wrapped function so far raised a retryable error
\* (one with a retryable status code, which the wrapper also catches as
\* retryable)
AlwaysRaisedRetryable ==
    /\ func_calls = Len(raised)
    /\ \A i \in 1..Len(raised) :
           /\ RetryableByStatus(raised[i])
           /\ CaughtAsRetryable(raised[i], retryable_exceptions)

\* C2: an operation that raises a retryable error on every attempt is
\* invoked exactly max_retries + 1 times, with exactly max_retries sleeps,
\* and the wrapper then returns the failure result None.
C2_ExhaustedRetriesReturnNone ==
    (w_pc = "done" /\ config.max_retries >= 0 /\ AlwaysRaisedRetryable) =>
        /\ func_calls = config.max_retries + 1
        /\ Len(sleeps) = config.max_retries
        /\ w_outcome = Returned(None)

\* C3: an operation whose first error is not retryable (its status code is
\* not a retryable one, and the wrapper does not catch it as retryable) is
\* invoked exactly once, with no sleep, and the wrapper returns the failure
\* result None; the error is not raised past the wrapper.
C3_NonRetryableReturnsNone ==
    (/\ w_pc = "done" /\ Len(raised) >= 1
     /\ ~RetryableByStatus(raised[1])
     /\ ~CaughtAsRetryable(raised[1], retryable_exceptions)) =>
        /\ func_calls = 1
        /\ sleeps = << >>
        /\ w_outcome = Returned(None)

\* the i-th failure was followed by a sleep and another attempt
WasRetried(i) == i < func_calls \/ (i = func_calls /\ w_pc \in {"sleep", "call"})

\* C5: a failed call is retried, while attempts remain, if and only if its
\* error carries a status code of config.retryable_status_codes (429, 503,
\* 504) or is a failure of the connection; an error with another status
\* code (400) is never retried.
C5_RetriedIffStatusRetryable ==
    \A i \in 1..Len(raised) :
        /\ (i <= config.max_retries) =>
               (WasRetried(i) <=> RetryableByStatus(raised[i]))
        /\ ~RetryableByStatus(raised[i]) => ~WasRetried(i)


\* C28: in every run of the wrapper a sleep occurs only between two
\* attempts: none before the first attempt, none after an attempt that
\* succeeded, none after a failure that is not retryable and none after
\* the final attempt; the sleep after the attempt numbered i (from 0)
\* lasts linear_backoff(i, config).
C28_SleepsOnlyBetweenAttempts ==
    /\ func_calls = 0 => sleeps = << >>
    /\ w_pc = "sleep" =>
           /\ Len(sleeps) = func_calls - 1
           /\ attempt < config.max_retries
           /\ CaughtAsRetryable(raised[func_calls], retryable_exceptions)
    /\ w_pc = "call" =>
           /\ Len(sleeps) = func_calls
           /\ sleeps # << >> => attempt <= config.max_retries
    /\ (w_pc = "done" /\ func_calls > 0) => Len(sleeps) = func_calls - 1
    /\ \A i \in 1..Len(sleeps) :
           /\ sleeps[i] = linear_backoff(i - 1, config)
           /\ CaughtAsRetryable(raised[i], retryable_exceptions)

\* two retryable failures, then success: three attempts, sleeps of 2 and 6
\* seconds between them
C28_Witness ==
    /\ w_pc = "done" /\ w_outcome = Returned(FuncValue)
    /\ config = RetryConfig(3, 2, 10)
    /\ func_calls = 3
    /\ sleeps = << Rat(2, 1), Rat(6, 1) >>

\* ------------------------------------------------------------------------
\* Properties of the backoff policy in floating point (checked under
\* SpecFloatBackoff)
\* ------------------------------------------------------------------------

\* the wait of the latest attempt lies between min_wait and max_wait
LatestWaitInRange ==
    sleeps # << >> =>
        /\ ~FloatLess(wait_time, FromInt(config.min_wait))
        /\ ~FloatLess(FromInt(config.max_wait), wait_time)

\* the wait of the latest attempt is not below that of the attempt before
LatestWaitNotLower ==
    Len(sleeps) >= 2 =>
        ~FloatLess(sleeps[Len(sleeps)], sleeps[Len(sleeps) - 1])

\* C29: for every config with max_retries >= 0 and 0 <= min_wait <=
\* max_wait and every attempt >= 0, the wait lies between min_wait and
\* max_wait, it does not decrease from one attempt to the next, and for
\* max_retries >= 2 the wait after attempt max_retries - 1 is max_wait.
C29_WaitsBoundedMonotoneReachMax ==
    /\ LatestWaitInRange
    /\ LatestWaitNotLower
    /\ (config.max_retries >= 2 /\ Len(sleeps) = config.max_retries) =>
           wait_time = FromInt(config.max_wait)

\* ------------------------------------------------------------------------
\* Properties of the analysis protocol (checked under Spec)
\* ------------------------------------------------------------------------

HasMarker(o) ==
    /\ o.kind = "response" /\ o.content # None
    /\ FirstRequestedFile(o.content) # None

\* C1: whatever the model answers, an analysis request makes at most two
\* remote calls and at most one file fetch, and it ends in DONE and stays
\* there: it never loops on file requests.
C1_BoundedRounds ==
    /\ [](create_count <= 2 /\ Len(fetches) <= 1)
    /\ <>[](pc = "DONE")

\* a model that asks for a file in every response: two calls, one fetch
C1_Witness ==
    /\ \A i \in 1..ScriptLen : HasMarker(side_effect[i])
    /\ pc = "DONE" /\ create_count = 2 /\ Len(fetches) = 1
    /\ final_response # Pending

\* C19: when the first remote call succeeds and its response holds no file
\* request, the protocol is in DONE right after that call, the result is
\* the sanitized first response, and there was exactly one remote call and
\* no file fetch.
C19_NoMarkerEndsWithInitial ==
    (/\ create_count >= 1
     /\ side_effect[1].kind = "response"
     /\ side_effect[1].content # None
     /\ FirstRequestedFile(side_effect[1].content) = None) =>
        /\ pc = "DONE"
        /\ result = TextResult(strip_backticks(side_effect[1].content))
        /\ create_count = 1
        /\ fetches = << >>

C19_Witness ==
    /\ pc = "DONE" /\ create_count = 1 /\ fetches = << >>
    /\ side_effect[1] = [kind |-> "response", content |-> <<BT, "a", BT>>]
    /\ result = TextResult(<<"a">>)

\* C20: once the second remote call is made the protocol is in DONE,
\* whether that call succeeded or failed: no further call or fetch follows,
\* a file request in the second response included, and the result is the
\* sanitized second response (None if the call failed), never the first.
C20_FollowUpEndsProtocol ==
    create_count >= 2 =>
        /\ create_count = 2 /\ Len(fetches) = 1
        /\ pc = "DONE"
        /\ final_response = make_api_call(side_effect[2])
        /\ result = TextResult(strip_backticks(final_response))

\* the second response asks for a file again: it is the result
C20_Witness ==
    /\ pc = "DONE" /\ create_count = 2 /\ Len(fetches) = 1
    /\ side_effect[1].kind = "response" /\ side_effect[2].kind = "response"
    /\ side_effect[1].content = <<"{a/f}">>
    /\ side_effect[2].content = <<"{b/g}", " ", "{a/f}">>
    /\ result = TextResult(<<"{b/g}", " ", "{a/f}">>)

\* C13: when the first response holds a file request and git reports the
\* file missing at the parent reference, the protocol ends in DONE with the
\* error result that names the requested file and the parent reference,
\* and no second remote call is made.
C13_MissingFileEndsInError ==
    (/\ Len(fetches) = 1
     /\ fetches[1].git.kind = "path_not_in_commit") =>
        /\ pc = "DONE"
        /\ result = FileNotFound(requested_file, ParentOf(commit_ref))
        /\ create_count = 1

\* the path starts with the a/ or b/ of a diff header
HasDiffPrefix(path) ==
    Len(path) >= 2 /\ <<path[1], path[2]>> \in {<<"a", "/">>, <<"b", "/">>}

\* C24: the file fetch is made at the parent of the given commit
\* reference, never at the reference itself, for the requested path
\* without one leading a/ or b/; a path without such a prefix is passed
\* as it is.
C24_FetchAtParentNormalizedPath ==
    \A i \in 1..Len(fetches) :
        /\ fetches[i].commit_ref = <<commit_ref, "^">>
        /\ fetches[i].commit_ref # <<commit_ref>>
        /\ IF HasDiffPrefix(requested_file)
           THEN <<requested_file[1], requested_file[2]>>
                    \o fetches[i].file_path = requested_file
           ELSE fetches[i].file_path = requested_file

\* a/b/f is fetched as b/f, not as f
C24_Witness ==
    /\ Len(fetches) = 1 /\ commit_ref = "HEAD"
    /\ requested_file = <<"a", "/", "b", "/", "f">>
    /\ fetches[1].file_path = <<"b", "/", "f">>
    /\ fetches[1].commit_ref = <<"HEAD", "^">>

\* C25: whenever the file fetch succeeded, an empty file included, the
\* messages of the second remote call are a system message and a user
\* message that holds the diff, the note that the file was requested and
\* the fetched content; they are never the messages of the first call.
C25_SecondPromptCarriesFile ==
    create_count >= 2 =>
        /\ Len(sent[2]) = 2
        /\ sent[2][1].role = "system" /\ sent[2][2].role = "user"
        /\ sent[2][2].content.kind = "diff_with_requested_file"
        /\ sent[2][2].content.diff = diff_text
        /\ sent[2][2].content.file_path = requested_file
        /\ sent[2][2].content.file_content = fetches[1].git.out
        /\ sent[2] # sent[1]

\* the file requests of a response, in textual order
MarkerTokens(response) ==
    LET IsMarker(t) == t \in Markers
    IN  SelectSeq(response, IsMarker)

\* C26: when the first response holds several file requests, only the
\* first in textual order is honoured: the one fetch is for its path and
\* no fetch is made for a later one.
C26_OnlyFirstMarkerHonoured ==
    (/\ create_count >= 1
     /\ side_effect[1].kind = "response"
     /\ side_effect[1].content # None
     /\ Len(MarkerTokens(side_effect[1].content)) >= 2) =>
        LET ms == MarkerTokens(side_effect[1].content)
        IN  /\ requested_file = MarkerPath(ms[1])
            /\ Len(fetches) <= 1
            /\ \A i \in 1..Len(fetches) :
                   /\ fetches[i].file_path = ActualFilePath(MarkerPath(ms[1]))
                   /\ \A j \in 2..Len(ms) :
                          MarkerPath(ms[j]) # MarkerPath(ms[1]) =>
                              fetches[i].file_path
                                  # ActualFilePath(MarkerPath(ms[j]))

\* the response asks for b/g and then for a/f: g is fetched, f is not
C26_Witness ==
    /\ pc = "DONE" /\ Len(fetches) = 1
    /\ side_effect[1].kind = "response"
    /\ side_effect[1].content = <<"{b/g}", " ", "{a/f}">>
    /\ fetches[1].file_path = <<"g">>

\* the first remote call gives no result (it raises, or the response lacks
\* the expected fields or has no content) or a content that is empty
\* once trimmed
FirstCallFails ==
    LET o == side_effect[1]
    IN  \/ o.kind \in {"raise", "malformed"}
        \/ o.kind = "response" /\ o.content = None
        \/ o.kind = "response" /\ o.content # None /\ IsBlank(o.content)

\* C27: when the first remote call fails, the analysis returns None after
\* exactly one remote call: no file request is looked for, no file is
\* fetched and no second call is made.
C27_FailedFirstCallReturnsNone ==
    (create_count >= 1 /\ FirstCallFails) =>
        /\ pc = "DONE" /\ result = TextResult(None)
        /\ create_count = 1 /\ Len(sent) = 1
        /\ requested_file = None
        /\ fetches = << >>
        /\ final_response = Pending

\* the first response is nothing but whitespace, the scripted second
\* response would have asked for a file
C27_Witness ==
    /\ pc = "DONE" /\ create_count = 1 /\ result = TextResult(None)
    /\ side_effect[1] = [kind |-> "response", content |-> <<" ">>]
    /\ side_effect[2] = [kind |-> "response", content |-> <<"{a/f}">>]

\* the results that are error strings: each is a formatted string with a
\* fixed, non-empty text around the names it mentions
ErrorStringKinds == {"retrieval_failed", "file_not_found", "follow_up_error"}

\* C21: when fetching the requested file fails for a reason other than the
\* file being missing at the reference, the protocol ends in DONE, its
\* result is an error string (not an exception, not None), and no second
\* remote call is made.
C21_OtherFailuresEndInError ==
    (/\ Len(fetches) = 1
     /\ fetches[1].git.kind \notin {"stdout", "path_not_in_commit"}) =>
        /\ pc = "DONE"
        /\ result.kind \in ErrorStringKinds
        /\ create_count = 1

\* git show fails for another reason, git cannot be executed
C21_Witness ==
    /\ pc = "DONE" /\ create_count = 1 /\ Len(fetches) = 1
    /\ \/ /\ fetches[1].git.kind = "other_git_error"
          /\ result = FollowUpError(requested_file, "CalledProcessError")
       \/ /\ fetches[1].git.kind = "os_error"
          /\ result = FollowUpError(requested_file, "PermissionError")

\* C22: the result is the file-not-found error only when git reported the
\* requested file missing at the parent reference; every other failure of
\* the fetch (git not installed, the parent reference invalid, ...) gives
\* the other error result.
C22_NotFoundOnlyForMissingFile ==
    (Len(fetches) = 1 /\ pc = "DONE") =>
        /\ result.kind = "file_not_found" =>
               fetches[1].git.kind = "path_not_in_commit"
        /\ fetches[1].git.kind \notin {"stdout", "path_not_in_commit"} =>
               result.kind \in {"follow_up_error", "retrieval_failed"}

\* ------------------------------------------------------------------------
\* Properties of the analyze-commit command (checked under
\* SpecAnalyzeCommit)
\* ------------------------------------------------------------------------

C14_InvalidStrategyNamesAccepted ==
    (pc = "DONE" /\ strategy \in StrategyNames \ AcceptedStrategies) =>
        /\ result.kind = "raised"
        /\ result.value = strategy
        /\ result.valid_options = AcceptedStrategies
        /\ create_count = 0

\* C15: an error raised by the remote call never leaves the method that
\* made the call: the method returns None, and what the command then prints
\* for it is a labeled failure message (no crash, no panel without a
\* message).
C15_RemoteErrorsDegrade ==
    (create_count >= 1 /\ side_effect[1].kind = "raise") =>
        /\ result = TextResult(None)
        /\ report.kind \in {"none", "failure_message"}

\* the response lacks the expected fields, or its message body is empty
InvalidOrEmpty(o) ==
    \/ o.kind = "malformed"
    \/ o.kind = "response" /\ o.content \in {None, << >>}

\* C16: a remote call that returns a structurally invalid response, or one
\* with an empty message body, is a failure: the method that made the call
\* returns None, and the remote call is not attempted again.
C16_InvalidResponseIsFailure ==
    (create_count >= 1 /\ InvalidOrEmpty(side_effect[1])) =>
        /\ result = TextResult(None)
        /\ create_count = 1

\* a commit message whose subject line is immediately followed by body
\* lines: trimmed text without backticks, two lines or more, none blank
SubjectThenBody(c) ==
    /\ c # None /\ c = Strip(c)
    /\ \A i \in 1..Len(c) : c[i] # BT
    /\ LET lines == SplitLines(c)
       IN  Len(lines) >= 2 /\ \A i \in 1..Len(lines) : ~IsBlank(lines[i])

\* C18: for such a message summarize_changes returns the message with one
\* blank line inserted between the subject line and the body, the other
\* lines unchanged.
C18_BlankLineAfterSubject ==
    (/\ pc = "DONE" /\ strategy \in AcceptedStrategies
     /\ side_effect[1].kind = "response"
     /\ SubjectThenBody(side_effect[1].content)) =>
        LET lines == SplitLines(side_effect[1].content)
        IN  result = TextResult(lines[1] \o <<NL, NL>>
                                    \o JoinLines(Tail(lines)))

\* the remote call fails k times with a retryable error, then succeeds
FailsThenSucceeds(k) ==
    /\ k <= config.max_retries
    /\ \A i \in 1..k :
           /\ side_effect[i].kind = "raise"
           /\ RetryableByStatus(side_effect[i].exc)
    /\ side_effect[k + 1].kind = "response"
    /\ side_effect[k + 1].content # None

\* C4: when the remote call fails k times (k <= max_retries) with retryable
\* errors and then succeeds, _make_api_call returns the content of the
\* successful response after exactly k + 1 invocations and k sleeps.
\* Stated for the first _make_api_call of an analysis, right after it
\* returned.
C4_SucceedsAfterRetries ==
    \A k \in 0..(ScriptLen - 1) :
        (Len(sent) = 1 /\ FailsThenSucceeds(k)) =>
            /\ initial_response = Strip(side_effect[k + 1].content)
            /\ create_count = k + 1
            /\ Len(sleeps) = k

\* ------------------------------------------------------------------------
\* Properties of the git-summary command (checked under SpecGitSummary)
\* ------------------------------------------------------------------------

\* the operations of a kind among those the command ran
OpsOf(kind) == { i \in 1..Len(git_ops) : git_ops[i].op = kind }

\* C30: commit_changes is invoked only after a non-empty commit message was
\* generated and approved, by the user or by --always-accept-commit-message;
\* push_changes is invoked only after commit_changes returned success; in a
\* dry run or with an unknown model alias nothing is staged, committed or
\* pushed and create is not called. In ai_git the first two parts hold
\* because no run of git_summary gets past the construction of the
\* summarizer (TypeError); the runs that commit and push are those of the
\* same code in git_summarize.
C30_CommitAfterApprovalPushAfterCommit ==
    /\ \A i \in OpsOf("commit") :
           /\ create_count >= 1
           /\ result.kind = "text" /\ ~Falsy(result.value)
           /\ git_ops[i].message = result.value
           /\ messageApproved.value = "True"
           /\ \/ options.always_accept_commit_message
              \/ messageApproved.answer = "yes"
    /\ \A i \in OpsOf("push") :
           \E j \in OpsOf("commit") : j < i /\ git_ops[j].ok
    /\ (options.dry_run \/ options.model = "unknown_alias") =>
           /\ OpsOf("add") = {} /\ OpsOf("commit") = {} /\ OpsOf("push") = {}
           /\ create_count = 0

\* a dry run of ai_git's git_summary with a known alias has ended after the
\* resolution, with exit code 0 and nothing done
C30_Witness ==
    /\ pc = "EXIT"
    /\ options.command = AiGitSummary
    /\ options.dry_run /\ options.model = "alias"
    /\ options.stage_all /\ options.push
    /\ options.always_accept_commit_message
    /\ report = ExitWith("text", "Dry run completed", 0)
    /\ git_ops = << >> /\ create_count = 0

=============================================================================
